---- MODULE Spec2Model ----
(***************************************************************************)
(* A model of the PDF question-answering pipeline of Pdfload.py and of its *)
(* two interactive surfaces: the command-line loop of Pdfload.py and the   *)
(* Streamlit page of app.py.                                               *)
(*                                                                         *)
(* A page text is a sequence of character codes; every page of every file  *)
(* has its own codes, so a chunk shows which page its characters are from. *)
(***************************************************************************)
EXTENDS Integers, Sequences, FiniteSets, TLC

VARIABLES
    my_models,      \* what client.models.list() did at startup
    CURRENT_MODEL,  \* Pdfload.CURRENT_MODEL
    gen_models,     \* the model= argument of every generate_content call so far
    surface,        \* which program runs: "cli" (Pdfload.py), "app" (app.py), "lib"
    pc,             \* where that program is
    pdf_files,      \* the pdfs folder: file name index -> file
    ret,            \* what the last load_and_chunk_pdfs call returned
    collection,     \* the persistent collection my_pdf_knowledge_base
    calls,          \* the pipeline functions the last handler called, in order
    ingested,       \* the folder as the last ingest handler read it (history)
    messages,       \* st.session_state.messages
    shown,          \* what the last question put on the screen
    asked           \* the number of questions asked so far

vars == <<my_models, CURRENT_MODEL, gen_models, surface, pc, pdf_files, ret,
          collection, calls, ingested, messages, shown, asked>>

----------------------------------------------------------------------------
(* Bounds of the model *)

MaxLen == 3010          \* SpecChunk: the longest page text
MaxFiles == 2           \* SpecLoad: files in the folder
MaxPages == 4           \* SpecLoad: pages in the folder, over all its files
MaxDocs == 12           \* SpecEmbed: chunks handed to setup_vector_db
MaxEntries == 4         \* SpecQuery: entries of the collection
MaxEmbedFail == 1       \* embedding calls the service fails during one ingest
AppFiles == 1           \* Spec: files in the folder
AppPages == 1           \* Spec: pages in the folder, over all its files
MaxQuestions == 2       \* questions asked in one run

----------------------------------------------------------------------------
(* Program constants *)

chunk_size == 2000
overlap == 500

Min(a, b) == IF a < b THEN a ELSE b

----------------------------------------------------------------------------
(* The folder and pypdf *)

\* os.path.basename(pdf_file) of the n-th file glob finds
FileNames == <<"a.pdf", "b.pdf", "c.pdf", "d.pdf", "e.pdf">>

basename(n) == FileNames[n]

\* the code of character k (1-based) of page p (0-based) of file n
CharCode(n, p, k) == (n * 10 + p) * 100000 + k

\* page.extract_text() of a page that holds len characters
extract_text(n, p, len) == [k \in 1..len |-> CharCode(n, p, k)]

\* glob.glob(..., recursive=True): the files of the folder, here in name order
RECURSIVE SortedSeq(_)
SortedSeq(S) ==
    IF S = {} THEN <<>>
    ELSE LET m == CHOOSE x \in S : \A y \in S : x <= y
         IN  <<m>> \o SortedSeq(S \ {m})

glob(folder) == SortedSeq(DOMAIN folder)

----------------------------------------------------------------------------
(* load_and_chunk_pdfs *)

\* range(i, stop, step) of Python, step > 0
RECURSIVE range(_, _, _)
range(i, stop, step) ==
    IF i >= stop THEN <<>> ELSE <<i>> \o range(i + step, stop, step)

\* text[a:b] of Python, 0 <= a <= b
Slice(text, a, b) == SubSeq(text, a + 1, Min(b, Len(text)))

\* f"doc_{id_counter}"
DocId(id_counter) == "doc_" \o ToString(id_counter)

\* AppendChunk with the window as long as the stride: no overlap
AppendChunk_NoOverlap(acc, text, filename, page_num, i) ==
    [documents  |-> Append(acc.documents, Slice(text, i, i + chunk_size - overlap)),
     metadatas  |-> Append(acc.metadatas, [source |-> filename, page |-> page_num + 1]),
     ids        |-> Append(acc.ids, DocId(acc.id_counter)),
     id_counter |-> acc.id_counter + 1]

\* AppendChunk with the id taken from the place in the page, not from id_counter
AppendChunk_PageLocalId(acc, text, filename, page_num, i) ==
    [documents  |-> Append(acc.documents, Slice(text, i, i + chunk_size)),
     metadatas  |-> Append(acc.metadatas, [source |-> filename, page |-> page_num + 1]),
     ids        |-> Append(acc.ids, DocId(i \div (chunk_size - overlap))),
     id_counter |-> acc.id_counter + 1]

\* the body of the chunk loop: one chunk appended to the three lists
AppendChunk(acc, text, filename, page_num, i) ==
    [documents  |-> Append(acc.documents, Slice(text, i, i + chunk_size)),
     metadatas  |-> Append(acc.metadatas, [source |-> filename, page |-> page_num + 1]),
     ids        |-> Append(acc.ids, DocId(acc.id_counter)),
     id_counter |-> acc.id_counter + 1]

\* the chunk loop over the starts still to do
RECURSIVE ChunkLoop(_, _, _, _, _)
ChunkLoop(acc, text, filename, page_num, starts) ==
    IF starts = <<>> THEN acc
    ELSE ChunkLoop(AppendChunk(acc, text, filename, page_num, Head(starts)),
                   text, filename, page_num, Tail(starts))

\* the starts of the chunks of a text
ChunkStarts(text) == range(0, Len(text), chunk_size - overlap)

\* one page: no text, no chunk
ChunkPage(acc, text, filename, page_num) ==
    IF Len(text) = 0 THEN acc
    ELSE ChunkLoop(acc, text, filename, page_num, ChunkStarts(text))

\* the page loop from page page_num on; a page that raises ends the loop, and
\* what the earlier pages appended stays in the lists
RECURSIVE PageLoop(_, _, _, _)
PageLoop(acc, n, pages, page_num) ==
    IF page_num >= Len(pages) THEN acc
    ELSE LET page == pages[page_num + 1]
         IN  IF page.raises THEN acc
             ELSE PageLoop(ChunkPage(acc, extract_text(n, page_num, page.len),
                                     basename(n), page_num),
                           n, pages, page_num + 1)

\* the try block of one file: PdfReader(pdf_file) raises, or the pages are read
ReadFile(acc, n, file) ==
    IF ~file.opens THEN acc ELSE PageLoop(acc, n, file.pages, 0)

RECURSIVE FileLoop(_, _, _)
FileLoop(acc, folder, names) ==
    IF names = <<>> THEN acc
    ELSE FileLoop(ReadFile(acc, Head(names), folder[Head(names)]), folder, Tail(names))

NoneResult == [none |-> TRUE, documents |-> <<>>, metadatas |-> <<>>, ids |-> <<>>]

load_and_chunk_pdfs(folder) ==
    IF glob(folder) = <<>> THEN NoneResult
    ELSE LET acc == FileLoop([documents |-> <<>>, metadatas |-> <<>>, ids |-> <<>>,
                              id_counter |-> 0], folder, glob(folder))
         IN  [none |-> FALSE, documents |-> acc.documents,
              metadatas |-> acc.metadatas, ids |-> acc.ids]

----------------------------------------------------------------------------
(* get_best_available_model *)

priority_list ==
    <<"models/gemini-1.5-flash", "models/gemini-1.5-flash-001",
      "models/gemini-1.5-flash-002", "models/gemini-1.5-pro",
      "models/gemini-1.5-pro-001", "models/gemini-1.5-pro-002",
      "models/gemini-1.0-pro">>

\* the model names the service may list, and the words each holds
\* ("gemini" in model, "embedding" in model, "vision" in model)
ModelNames ==
    {"models/gemini-1.5-pro", "models/gemini-1.0-pro", "models/gemini-2.0-flash",
     "models/gemini-pro-vision", "models/gemini-embedding-001",
     "models/text-embedding-004", "models/imagen-3.0"}

WordsOf(model) ==
    CASE model = "models/gemini-1.5-pro"       -> {"gemini"}
      [] model = "models/gemini-1.0-pro"       -> {"gemini"}
      [] model = "models/gemini-2.0-flash"     -> {"gemini"}
      [] model = "models/gemini-pro-vision"    -> {"gemini", "vision"}
      [] model = "models/gemini-embedding-001" -> {"gemini", "embedding"}
      [] model = "models/text-embedding-004"   -> {"embedding"}
      [] OTHER                                 -> {}

InList(names, model) == \E k \in 1..Len(names) : names[k] = model

IsGenerative(model) ==
    /\ "gemini" \in WordsOf(model)
    /\ "embedding" \notin WordsOf(model)
    /\ "vision" \notin WordsOf(model)

DefaultModel == "gemini-1.5-pro"

\* the loop over priority_list: the first favorite the service lists, as a
\* sequence of 0 or 1 names
RECURSIVE FirstFavorite(_, _)
FirstFavorite(favorites, names) ==
    IF favorites = <<>> THEN <<>>
    ELSE IF InList(names, Head(favorites)) THEN <<Head(favorites)>>
    ELSE FirstFavorite(Tail(favorites), names)

\* the loop over my_models: the first listed name that is generative
RECURSIVE FirstGenerative(_)
FirstGenerative(names) ==
    IF names = <<>> THEN <<>>
    ELSE IF IsGenerative(Head(names)) THEN <<Head(names)>>
    ELSE FirstGenerative(Tail(names))

\* get_best_available_model with the default written like the listed names
get_best_available_model_Prefixed(listing) ==
    IF listing.raises THEN "models/gemini-1.5-pro"
    ELSE LET favorite == FirstFavorite(priority_list, listing.names)
             fallback == FirstGenerative(listing.names)
         IN  IF favorite # <<>> THEN favorite[1]
             ELSE IF fallback # <<>> THEN fallback[1]
             ELSE "models/gemini-1.5-pro"

\* listing: [raises |-> client.models.list() raised, names |-> the names listed]
get_best_available_model(listing) ==
    IF listing.raises THEN DefaultModel
    ELSE LET favorite == FirstFavorite(priority_list, listing.names)
             fallback == FirstGenerative(listing.names)
         IN  IF favorite # <<>> THEN favorite[1]
             ELSE IF fallback # <<>> THEN fallback[1]
             ELSE DefaultModel

----------------------------------------------------------------------------
(* get_gemini_embedding *)

\* result.embeddings[0].values: the service's vector for a text, never empty
embed_content(text) == <<Len(text), IF Len(text) = 0 THEN 0 ELSE text[1]>>

\* ok: the embedding service answered this call
get_gemini_embedding(text, ok) == IF ok THEN embed_content(text) ELSE <<>>

----------------------------------------------------------------------------
(* setup_vector_db *)

batch_size == 10

\* BatchEmbed that appends nothing for a text whose embedding failed; calls
\* counts the embedding calls made before this batch
RECURSIVE BatchEmbed_SkipFailedFrom(_, _, _, _)
BatchEmbed_SkipFailedFrom(embeddings, batch_docs, fails, calls_made) ==
    IF batch_docs = <<>> THEN embeddings
    ELSE LET emb == get_gemini_embedding(Head(batch_docs), (calls_made + 1) \notin fails)
         IN  BatchEmbed_SkipFailedFrom(IF emb = <<>> THEN embeddings
                                       ELSE Append(embeddings, emb),
                                       Tail(batch_docs), fails, calls_made + 1)

BatchEmbed_SkipFailed(embeddings, batch_docs, fails) ==
    BatchEmbed_SkipFailedFrom(embeddings, batch_docs, fails, Len(embeddings))

\* the inner loop: one embedding appended per text of the batch; the service
\* fails the calls whose number (1-based, over the whole run) is in fails
RECURSIVE BatchEmbed(_, _, _)
BatchEmbed(embeddings, batch_docs, fails) ==
    IF batch_docs = <<>> THEN embeddings
    ELSE BatchEmbed(Append(embeddings,
                           get_gemini_embedding(Head(batch_docs),
                                                (Len(embeddings) + 1) \notin fails)),
                    Tail(batch_docs), fails)

\* the outer loop over the batch starts still to do
RECURSIVE EmbedLoop(_, _, _, _)
EmbedLoop(embeddings, documents, starts, fails) ==
    IF starts = <<>> THEN embeddings
    ELSE EmbedLoop(BatchEmbed(embeddings,
                              Slice(documents, Head(starts), Head(starts) + batch_size),
                              fails),
                   documents, Tail(starts), fails)

EmbedAll(documents, fails) ==
    EmbedLoop(<<>>, documents, range(0, Len(documents), batch_size), fails)

NoCollection == [exists |-> FALSE, entries |-> <<>>]

\* Recreate without the delete: the collection is opened as it is
Recreate_Keep(coll) == [exists |-> TRUE, entries |-> coll.entries]

\* chroma_client.delete_collection in its try/except, then create_collection
Recreate(coll) == [exists |-> TRUE, entries |-> <<>>]

\* collection.add: one entry per id, after the entries the collection holds;
\* lists of unequal lengths are refused and nothing is added
CollectionAdd(coll, documents, embeddings, metadatas, ids) ==
    IF \/ Len(documents) # Len(ids)
       \/ Len(embeddings) # Len(ids)
       \/ Len(metadatas) # Len(ids)
    THEN coll
    ELSE [coll EXCEPT !.entries = @ \o
            [k \in 1..Len(ids) |-> [id |-> ids[k], embedding |-> embeddings[k],
                                    document |-> documents[k], metadata |-> metadatas[k]]]]

\* the arguments of the collection.add call of setup_vector_db
AddArgs(documents, metadatas, ids, fails) ==
    [documents |-> documents, embeddings |-> EmbedAll(documents, fails),
     metadatas |-> metadatas, ids |-> ids]

setup_vector_db(coll, documents, metadatas, ids, fails) ==
    LET a == AddArgs(documents, metadatas, ids, fails)
    IN  CollectionAdd(Recreate(coll), a.documents, a.embeddings, a.metadatas, a.ids)

----------------------------------------------------------------------------
(* query_rag_system *)

n_results == 3

\* the orders in which an index of n entries may return its nearest k: every
\* sequence of Min(n, k) different entries
Rankings(n, k) ==
    {r \in [1..Min(n, k) -> 1..n] : \A a, b \in DOMAIN r : a # b => r[a] # r[b]}

\* collection.query(query_embeddings=[query_embedding], n_results=k): the
\* documents and metadatas of the nearest entries, nearest first
CollectionQuery(coll, query_embedding, k, ranking) ==
    [documents |-> [d \in 1..Len(ranking) |-> coll.entries[ranking[d]].document],
     metadatas |-> [d \in 1..Len(ranking) |-> coll.entries[ranking[d]].metadata]]

\* BuildContext that puts each entry before the ones already there
RECURSIVE BuildContext_Prepend(_, _, _, _)
BuildContext_Prepend(context_text, retrieved_docs, retrieved_meta, i) ==
    IF i >= Len(retrieved_docs) THEN context_text
    ELSE LET meta == retrieved_meta[i + 1]
         IN  BuildContext_Prepend(<<[Content   |-> retrieved_docs[i + 1],
                                     Reference |-> [Source |-> meta.source,
                                                    Page   |-> meta.page]]>>
                                  \o context_text,
                                  retrieved_docs, retrieved_meta, i + 1)

\* the context loop from result i (0-based) on: one Content/Reference entry
\* appended per retrieved document
RECURSIVE BuildContext(_, _, _, _)
BuildContext(context_text, retrieved_docs, retrieved_meta, i) ==
    IF i >= Len(retrieved_docs) THEN context_text
    ELSE LET meta == retrieved_meta[i + 1]
         IN  BuildContext(Append(context_text,
                                 [Content   |-> retrieved_docs[i + 1],
                                  Reference |-> [Source |-> meta.source,
                                                 Page   |-> meta.page]]),
                          retrieved_docs, retrieved_meta, i + 1)

AnswerText == "answer"
QueryError == "index query failed"
GenerationError == "generation failed"
NoCollectionError == "collection does not exist"

\* what the services do during one question: the embedding service answers or
\* not, the index raises or returns its nearest in some order, the generation
\* service raises or answers
\* (after a raising index query nothing more is asked of the services)
Envs(coll) ==
    {env \in [embed_ok : BOOLEAN, query_raises : BOOLEAN,
              ranking : Rankings(Len(coll.entries), n_results),
              gen_raises : BOOLEAN] :
        env.query_raises =>
            /\ ~env.gen_raises
            /\ \A d \in DOMAIN env.ranking : env.ranking[d] = d}

\* raised: an exception left the function; generated: generate_content was
\* called, with model= model
query_rag_system(coll, question, model, env) ==
    LET query_embedding == get_gemini_embedding(question, env.embed_ok)
        results == CollectionQuery(coll, query_embedding, n_results, env.ranking)
        context_text == BuildContext(<<>>, results.documents, results.metadatas, 0)
    IN  IF env.query_raises
        THEN [raised |-> TRUE, error |-> QueryError, generated |-> FALSE,
              model |-> model, results |-> [documents |-> <<>>, metadatas |-> <<>>],
              context_text |-> <<>>, text |-> ""]
        ELSE IF env.gen_raises
        THEN [raised |-> TRUE, error |-> GenerationError, generated |-> TRUE,
              model |-> model, results |-> results,
              context_text |-> context_text, text |-> ""]
        ELSE [raised |-> FALSE, error |-> "", generated |-> TRUE,
              model |-> model, results |-> results,
              context_text |-> context_text, text |-> AnswerText]

----------------------------------------------------------------------------
(* The handlers *)

NoShown == [kind |-> "none", text |-> ""]

\* "if docs is not None:": the empty list is true
Truthy_NotNone(r) == ~r.none

\* "if docs:" of both callers: None and the empty list are false
Truthy(r) == IF r.none THEN FALSE ELSE r.documents # <<>>

LoadCall == [fn |-> "load_and_chunk_pdfs"]
SetupCall(fails) == [fn |-> "setup_vector_db", fails |-> fails]
QueryCall == [fn |-> "query_rag_system"]

\* the sets of at most m embedding calls the service may fail during one ingest
\* of n chunks
FailSets(n, m) == {S \in SUBSET (1..n) : Cardinality(S) <= m}

\* what follows docs, meta, ids = load_and_chunk_pdfs(...) in both callers:
\* setup_vector_db if it returned documents (Pdfload.py lines 200-202, app.py
\* lines 42-44)
AfterLoad(coll, r, fails) ==
    IF Truthy(r)
    THEN [ret |-> r, built |-> TRUE,
          collection |-> setup_vector_db(coll, r.documents, r.metadatas, r.ids, fails),
          calls |-> <<LoadCall, SetupCall(fails)>>]
    ELSE [ret |-> r, built |-> FALSE, collection |-> coll, calls |-> <<LoadCall>>]

\* what chroma_db may hold when the program starts: no collection, or the one
\* an earlier run built from some folder
LegacyCollections(folders) ==
    {AfterLoad(NoCollection, load_and_chunk_pdfs(folder), {}).collection :
        folder \in folders}

\* the try/except of the command-line loop around one question
CliQuestion(coll, user_q, model, env) ==
    LET a == query_rag_system(coll, user_q, model, env)
    IN  IF a.raised
        THEN [pc |-> "chat", generated |-> a.generated,
              shown |-> [kind |-> "error", text |-> " An error occurred: " \o a.error]]
        ELSE [pc |-> "chat", generated |-> a.generated,
              shown |-> [kind |-> "answer", text |-> a.text]]

\* f"Error: {str(e)}" behind its warning sign
error_msg(e) == "Error: " \o e

\* ChatInput without the try/except: an exception ends the script run after
\* the user message
ChatInput_NoExcept(msgs, coll, prompt, model, env) ==
    LET withUser == Append(msgs, [role |-> "user", content |-> prompt])
        a == query_rag_system(coll, prompt, model, env)
    IN  IF ~coll.exists
        THEN [pc |-> "crashed", generated |-> FALSE, shown |-> NoShown,
              messages |-> withUser]
        ELSE IF a.raised
        THEN [pc |-> "crashed", generated |-> a.generated, shown |-> NoShown,
              messages |-> withUser]
        ELSE [pc |-> "running", generated |-> a.generated,
              shown |-> [kind |-> "answer", text |-> a.text],
              messages |-> Append(withUser, [role |-> "assistant", content |-> a.text])]

\* the chat_input handler of app.py: the user message, then get_collection and
\* query_rag_system in one try/except
ChatInput(msgs, coll, prompt, model, env) ==
    LET withUser == Append(msgs, [role |-> "user", content |-> prompt])
        a == query_rag_system(coll, prompt, model, env)
    IN  IF ~coll.exists
        THEN [pc |-> "running", generated |-> FALSE,
              shown |-> [kind |-> "error", text |-> error_msg(NoCollectionError)],
              messages |-> Append(withUser, [role |-> "assistant",
                                             content |-> error_msg(NoCollectionError)])]
        ELSE IF a.raised
        THEN [pc |-> "running", generated |-> a.generated,
              shown |-> [kind |-> "error", text |-> error_msg(a.error)],
              messages |-> Append(withUser, [role |-> "assistant",
                                             content |-> error_msg(a.error)])]
        ELSE [pc |-> "running", generated |-> a.generated,
              shown |-> [kind |-> "answer", text |-> a.text],
              messages |-> Append(withUser, [role |-> "assistant", content |-> a.text])]

\* the upload loop of app.py: the file is written under its name
SaveUpload(folder, n, file) ==
    IF n <= Len(folder) THEN [folder EXCEPT ![n] = file] ELSE Append(folder, file)

----------------------------------------------------------------------------
(* The inputs *)

PagesOf(lens) ==
    {[raises |-> FALSE, len |-> l] : l \in lens} \cup {[raises |-> TRUE, len |-> 0]}

\* a file PdfReader cannot open, or a file of at most np pages
FilesOf(lens, np) ==
    {[opens |-> FALSE, pages |-> <<>>]} \cup
    {[opens |-> TRUE, pages |-> ps] :
        ps \in UNION {[1..m -> PagesOf(lens)] : m \in 0..np}}

\* the folders of at most nf files and np pages
RECURSIVE FoldersOf(_, _, _)
FoldersOf(lens, nf, np) ==
    {<<>>} \cup
    (IF nf = 0 THEN {}
     ELSE UNION {{<<f>> \o rest : rest \in FoldersOf(lens, nf - 1, np - Len(f.pages))} :
                 f \in FilesOf(lens, np)})

NumPages(folder) ==
    LET RECURSIVE Sum(_)
        Sum(k) == IF k = 0 THEN 0 ELSE Len(folder[k].pages) + Sum(k - 1)
    IN  Sum(Len(folder))

\* page lengths: no text, and two chunks of which the second lies in the first
LoadLens == {0, chunk_size - overlap + 1}
IngestLens == {0, 1, 2}
\* page lengths of the runs that ask questions: one chunk a page
ChatLens == {1}

\* one file of n pages of one character
OneCharPages(n) ==
    <<[opens |-> TRUE, pages |-> [k \in 1..n |-> [raises |-> FALSE, len |-> 1]]]>>

\* the question typed, as character codes
Questions == {<<1, 2>>}

Listings ==
    {[raises |-> TRUE, names |-> <<>>],
     [raises |-> FALSE, names |-> <<>>],
     [raises |-> FALSE, names |-> <<"models/gemini-1.0-pro", "models/gemini-1.5-pro">>],
     [raises |-> FALSE, names |-> <<"models/gemini-embedding-001", "models/imagen-3.0">>],
     [raises |-> FALSE, names |-> <<"models/text-embedding-004",
                                    "models/gemini-pro-vision",
                                    "models/gemini-2.0-flash">>]}

\* the record of an ingest handler's run on folder: again, if the ingest
\* before it read the same folder
Ingested(before, folder) ==
    [done |-> TRUE, folder |-> folder,
     again |-> before.done /\ before.folder = folder]

----------------------------------------------------------------------------
(* Startup: the module-level code of Pdfload.py *)

Startup(listing) ==
    /\ my_models = listing
    /\ CURRENT_MODEL = get_best_available_model(listing)
    /\ gen_models = {}
    /\ ret = NoneResult
    /\ calls = <<>>
    /\ ingested = [done |-> FALSE, folder |-> <<>>, again |-> FALSE]
    /\ messages = <<>>
    /\ shown = NoShown
    /\ asked = 0

\* Pdfload.py run as a script, or app.py run by Streamlit
\* (same: an earlier run read this folder, as it is or when it was empty;
\* otherwise it read any of the folders)
InitRun(listings, surfaces, folders, same) ==
    /\ \E listing \in listings : Startup(listing)
    /\ surface \in surfaces
    /\ pc = IF surface = "cli" THEN "main" ELSE "running"
    /\ pdf_files \in folders
    /\ collection \in LegacyCollections(IF same THEN {<<>>, pdf_files} ELSE folders)

RaisingListing == [raises |-> TRUE, names |-> <<>>]

FavoriteListing ==
    [raises |-> FALSE, names |-> <<"models/gemini-1.0-pro", "models/gemini-1.5-pro">>]

ChatFolders == FoldersOf(ChatLens, AppFiles, AppPages)
ChatFiles == FilesOf(ChatLens, AppPages)
IngestFolders == FoldersOf(IngestLens, AppFiles, AppPages)
IngestFiles == FilesOf(IngestLens, AppPages)

Init == InitRun({FavoriteListing}, {"cli", "app"}, ChatFolders, TRUE)
InitIngest ==
    InitRun({RaisingListing, FavoriteListing}, {"cli", "app"}, IngestFolders, FALSE)
InitCli == InitRun(Listings, {"cli"}, IngestFolders, FALSE)

\* the functions of Pdfload.py called one after the other
InitLib(folders) ==
    /\ Startup([raises |-> TRUE, names |-> <<>>])
    /\ surface = "lib"
    /\ pc = "start"
    /\ pdf_files \in folders
    /\ collection = NoCollection

\* one file of two pages: one character, then a text of any length up to MaxLen
InitChunk ==
    InitLib({<<[opens |-> TRUE, pages |-> <<[raises |-> FALSE, len |-> 1],
                                            [raises |-> FALSE, len |-> l]>>]>> :
               l \in 0..MaxLen})
InitLoad == InitLib(FoldersOf(LoadLens, MaxFiles, MaxPages))
InitEmbed == InitLib({OneCharPages(n) : n \in 1..MaxDocs})
InitQuery == InitLib({OneCharPages(n) : n \in 1..MaxEntries})

----------------------------------------------------------------------------
(* The actions *)

Record(generated) ==
    gen_models' = IF generated THEN gen_models \cup {CURRENT_MODEL} ELSE gen_models

\* Pdfload.py, __main__ up to the loop; at most maxfail embedding calls fail
CliMain(maxfail) ==
    /\ surface = "cli" /\ pc = "main"
    /\ LET r == load_and_chunk_pdfs(pdf_files)
       IN  \E fails \in FailSets(Len(r.documents), maxfail) :
             LET g == AfterLoad(collection, r, fails)
             IN  /\ ret' = g.ret
                 /\ collection' = g.collection
                 /\ calls' = g.calls
                 /\ pc' = IF g.built THEN "chat" ELSE "done"
    /\ ingested' = Ingested(ingested, pdf_files)
    /\ UNCHANGED <<my_models, CURRENT_MODEL, gen_models, surface, pdf_files,
                   messages, shown, asked>>

\* Pdfload.py, one turn of the loop with a question
CliAsk ==
    /\ surface = "cli" /\ pc = "chat"
    /\ asked < MaxQuestions
    /\ \E user_q \in Questions, env \in Envs(collection) :
         LET h == CliQuestion(collection, user_q, CURRENT_MODEL, env)
         IN  /\ pc' = h.pc
             /\ shown' = h.shown
             /\ Record(h.generated)
    /\ calls' = <<QueryCall>>
    /\ asked' = asked + 1
    /\ UNCHANGED <<my_models, CURRENT_MODEL, surface, pdf_files, ret, collection,
                   ingested, messages>>

\* Pdfload.py, one turn of the loop with quit or exit
CliQuit ==
    /\ surface = "cli" /\ pc = "chat"
    /\ pc' = "done"
    /\ UNCHANGED <<my_models, CURRENT_MODEL, gen_models, surface, pdf_files, ret,
                   collection, calls, ingested, messages, shown, asked>>

\* app.py, the Process & Ingest Files button with one uploaded file out of
\* files; at most maxfail embedding calls fail
AppIngest(files, maxfail) ==
    /\ surface = "app" /\ pc = "running"
    /\ \E n \in 1..Min(Len(pdf_files) + 1, AppFiles), file \in files :
         LET saved == SaveUpload(pdf_files, n, file)
             r == load_and_chunk_pdfs(saved)
         IN  /\ NumPages(saved) <= AppPages
             /\ pdf_files' = saved
             /\ \E fails \in FailSets(Len(r.documents), maxfail) :
                  LET g == AfterLoad(collection, r, fails)
                  IN  /\ ret' = g.ret
                      /\ collection' = g.collection
                      /\ calls' = g.calls
                      /\ shown' = IF g.built THEN [kind |-> "success", text |-> ""]
                                  ELSE [kind |-> "error",
                                        text |-> "No valid text found in PDFs."]
             /\ ingested' = Ingested(ingested, saved)
    /\ UNCHANGED <<my_models, CURRENT_MODEL, gen_models, surface, pc, messages, asked>>

\* app.py, one question typed into the chat input
AppChat ==
    /\ surface = "app" /\ pc = "running"
    /\ asked < MaxQuestions
    /\ \E prompt \in Questions, env \in Envs(collection) :
         LET h == ChatInput(messages, collection, prompt, CURRENT_MODEL, env)
         IN  /\ pc' = h.pc
             /\ shown' = h.shown
             /\ messages' = h.messages
             /\ Record(h.generated)
    /\ calls' = <<QueryCall>>
    /\ asked' = asked + 1
    /\ UNCHANGED <<my_models, CURRENT_MODEL, surface, pdf_files, ret, collection,
                   ingested>>

\* load_and_chunk_pdfs called on the folder
LibLoad ==
    /\ surface = "lib" /\ pc = "start"
    /\ ret' = load_and_chunk_pdfs(pdf_files)
    /\ calls' = <<LoadCall>>
    /\ pc' = "loaded"
    /\ UNCHANGED <<my_models, CURRENT_MODEL, gen_models, surface, pdf_files,
                   collection, ingested, messages, shown, asked>>

\* setup_vector_db called on what load_and_chunk_pdfs returned
LibSetup ==
    /\ surface = "lib" /\ pc = "loaded"
    /\ Truthy(ret)
    /\ \E fails \in FailSets(Len(ret.documents), MaxEmbedFail) :
         /\ collection' = setup_vector_db(collection, ret.documents, ret.metadatas,
                                          ret.ids, fails)
         /\ calls' = Append(calls, SetupCall(fails))
    /\ pc' = "built"
    /\ UNCHANGED <<my_models, CURRENT_MODEL, gen_models, surface, pdf_files, ret,
                   ingested, messages, shown, asked>>

\* query_rag_system called on the collection
LibQuery ==
    /\ surface = "lib" /\ pc = "built"
    /\ \E question \in Questions, env \in Envs(collection) :
         LET a == query_rag_system(collection, question, CURRENT_MODEL, env)
         IN  /\ shown' = [kind |-> "result", text |-> a.text, raised |-> a.raised,
                          env |-> env, results |-> a.results,
                          context_text |-> a.context_text]
             /\ Record(a.generated)
    /\ calls' = <<QueryCall>>
    /\ asked' = asked + 1
    /\ pc' = "asked"
    /\ UNCHANGED <<my_models, CURRENT_MODEL, surface, pdf_files, ret, collection,
                   ingested, messages>>

\* the runs that ask questions: every embedding call of their ingests succeeds
Next == CliMain(0) \/ CliAsk \/ CliQuit \/ AppIngest(ChatFiles, 0) \/ AppChat
NextIngest == CliMain(MaxEmbedFail) \/ AppIngest(IngestFiles, MaxEmbedFail)
NextCli == CliMain(0) \/ CliAsk \/ CliQuit
NextChunk == LibLoad
NextEmbed == LibLoad \/ LibSetup
NextQuery == LibLoad \/ LibSetup \/ LibQuery

Spec == Init /\ [][Next]_vars
SpecIngest == InitIngest /\ [][NextIngest]_vars
SpecCli == InitCli /\ [][NextCli]_vars
SpecChunk == InitChunk /\ [][NextChunk]_vars
SpecLoad == InitLoad /\ [][NextChunk]_vars
SpecEmbed == InitEmbed /\ [][NextEmbed]_vars
SpecQuery == InitQuery /\ [][NextQuery]_vars

----------------------------------------------------------------------------
(* What the claims speak of *)

Max(a, b) == IF a > b THEN a ELSE b
CeilDiv(a, b) == (a + b - 1) \div b

Loaded == surface = "lib" /\ pc = "loaded"

\* the pages of the folder, as <<file, 0-based page number>>
AllPages ==
    {<<n, p>> \in (1..Len(pdf_files)) \X (0..9) : p < Len(pdf_files[n].pages)}

\* load_and_chunk_pdfs reaches the page: its file opens and no page up to it raises
Readable(n, p) ==
    /\ pdf_files[n].opens
    /\ \A q \in 0..p : ~pdf_files[n].pages[q + 1].raises

\* reading the file raises: at PdfReader or at one of its pages
FileFails(n) ==
    \/ ~pdf_files[n].opens
    \/ \E q \in 1..Len(pdf_files[n].pages) : pdf_files[n].pages[q].raises

PageLen(n, p) == pdf_files[n].pages[p + 1].len
PageText(n, p) == extract_text(n, p, PageLen(n, p))
PageMeta(n, p) == [source |-> FileNames[n], page |-> p + 1]

\* the places in the returned lists of the chunks that carry a page's metadata
ChunksOfPage(n, p) ==
    {k \in 1..Len(ret.metadatas) : ret.metadatas[k] = PageMeta(n, p)}

\* the file a chunk's metadata names
FileOf(meta) == CHOOSE n \in 1..Len(pdf_files) : FileNames[n] = meta.source

----------------------------------------------------------------------------
(* C1 *)

\* C1: a page text of length L >= 1 yields ceil(max(L - O, 1) / (T - O)) chunks,
\* so exactly one chunk whenever L <= T.
C1_ChunkCountFormula ==
    Loaded =>
        \A np \in AllPages :
            (Readable(np[1], np[2]) /\ PageLen(np[1], np[2]) >= 1) =>
                Cardinality(ChunksOfPage(np[1], np[2])) =
                    CeilDiv(Max(PageLen(np[1], np[2]) - overlap, 1), chunk_size - overlap)

----------------------------------------------------------------------------
(* C9 *)

\* C9: chunk j of a page is text[j*(T-O) : min(j*(T-O)+T, L)] of that one page:
\* not empty, at most T characters, under that page's file name and 1-based
\* page number, so with no character of another page; a page of 2200
\* characters yields the two chunks [0:2000) and [1500:2200).
C9_ChunkIsPageSubstring ==
    Loaded =>
        /\ \A k \in 1..Len(ret.documents) :
            LET meta == ret.metadatas[k]
                n == FileOf(meta)
                p == meta.page - 1
                j == Cardinality({i \in 1..(k - 1) : ret.metadatas[i] = meta})
                text == PageText(n, p)
                from == j * (chunk_size - overlap)
            IN  /\ meta.page \in 1..Len(pdf_files[n].pages)
                /\ ret.documents[k] = [x \in 1..(Min(from + chunk_size, Len(text)) - from)
                                          |-> text[from + x]]
                /\ Len(ret.documents[k]) >= 1
                /\ Len(ret.documents[k]) <= chunk_size
        /\ \A np \in AllPages :
            PageLen(np[1], np[2]) = 2200 =>
                \E k \in 1..Len(ret.documents) :
                    /\ ChunksOfPage(np[1], np[2]) = {k, k + 1}
                    /\ ret.documents[k] = [x \in 1..2000 |-> PageText(np[1], np[2])[x]]
                    /\ ret.documents[k + 1] =
                           [x \in 1..700 |-> PageText(np[1], np[2])[1500 + x]]

\* a page of 2200 characters was chunked after another page of the same file
C9_Witness ==
    /\ Loaded
    /\ Len(pdf_files) = 1
    /\ PageLen(1, 1) = 2200
    /\ Len(ret.documents) = 3
    /\ ret.metadatas[3] = [source |-> "a.pdf", page |-> 2]

----------------------------------------------------------------------------
(* C2 *)

\* C2: the ids returned are doc_0, doc_1, ..., doc_(n-1) in this order, and
\* the three lists have the same length n, whatever the files and pages and
\* whichever pages are empty or raise.
C2_IdsContiguous ==
    Loaded =>
        /\ Len(ret.ids) = Len(ret.documents)
        /\ Len(ret.metadatas) = Len(ret.documents)
        /\ \A k \in 1..Len(ret.ids) : ret.ids[k] = "doc_" \o ToString(k - 1)
        /\ \A a, b \in 1..Len(ret.ids) : a # b => ret.ids[a] # ret.ids[b]

\* two files gave chunks, one page between them was empty and one raised
C2_Witness ==
    /\ Loaded
    /\ Len(pdf_files) = 2
    /\ FileFails(1)
    /\ \E p \in 0..2 : <<2, p>> \in AllPages /\ Readable(2, p) /\ PageLen(2, p) = 0
    /\ Len(ret.ids) >= 3
    /\ \E a, b \in 1..Len(ret.ids) :
         ret.metadatas[a].source = "a.pdf" /\ ret.metadatas[b].source = "b.pdf"

----------------------------------------------------------------------------
(* C5 *)

\* C5: a file whose reading raises, at PdfReader or at any of its pages, gives
\* no chunk to the result, and every other file is read and chunked in full.
C5_FailedFileSkipped ==
    Loaded =>
        /\ \A n \in 1..Len(pdf_files) :
             FileFails(n) =>
                 \A k \in 1..Len(ret.metadatas) : ret.metadatas[k].source # FileNames[n]
        /\ \A np \in AllPages :
             (~FileFails(np[1]) /\ PageLen(np[1], np[2]) >= 1) =>
                 ChunksOfPage(np[1], np[2]) # {}

----------------------------------------------------------------------------
(* C4 *)

\* C4: when the embedding service fails for some texts, setup_vector_db still
\* hands collection.add one embedding per chunk, in the order of the chunks:
\* the empty vector for exactly the failed texts, the text's vector for the
\* others; the collection then holds the N chunks.
C4_EmbeddingFailureContained ==
    (surface = "lib" /\ pc = "built") =>
        /\ Len(calls) = 2
        /\ calls[2].fn = "setup_vector_db"
        /\ collection.exists
        /\ Len(collection.entries) = Len(ret.documents)
        /\ \A i \in 1..Len(collection.entries) :
             /\ collection.entries[i].document = ret.documents[i]
             /\ collection.entries[i].id = ret.ids[i]
             /\ collection.entries[i].metadata = ret.metadatas[i]
             /\ (i \in calls[2].fails) => collection.entries[i].embedding = <<>>
             /\ (i \notin calls[2].fails) =>
                    /\ collection.entries[i].embedding = embed_content(ret.documents[i])
                    /\ collection.entries[i].embedding # <<>>

\* an embedding of the second batch failed and the other chunks were embedded
C4_Witness ==
    /\ surface = "lib" /\ pc = "built"
    /\ Len(ret.documents) = 12
    /\ calls[2].fails = {11}
    /\ collection.entries[11].embedding = <<>>
    /\ collection.entries[12].embedding # <<>>
    /\ collection.entries[12].embedding # collection.entries[10].embedding

----------------------------------------------------------------------------
(* C10 *)

\* C10: the context block holds one Content/Reference entry per chunk the
\* index returned, in the order the index returned them: the 3 nearest, or
\* every chunk of a collection of fewer than 3.
C10_ContextFollowsIndex ==
    (surface = "lib" /\ pc = "asked" /\ ~shown.env.query_raises) =>
        LET ranking == shown.env.ranking
            context_text == shown.context_text
        IN  /\ Len(context_text) = Min(Len(collection.entries), 3)
            /\ Len(context_text) = Len(ranking)
            /\ \A i \in 1..Len(context_text) :
                 LET e == collection.entries[ranking[i]]
                 IN  /\ context_text[i].Content = e.document
                     /\ context_text[i].Reference =
                            [Source |-> e.metadata.source, Page |-> e.metadata.page]
            /\ Len(collection.entries) < 3 =>
                 \A k \in 1..Len(collection.entries) :
                     \E i \in 1..Len(context_text) :
                         context_text[i].Content = collection.entries[k].document

\* the index of four chunks returned the fourth, the second and the first
C10_Witness ==
    /\ surface = "lib" /\ pc = "asked"
    /\ ~shown.env.query_raises
    /\ Len(collection.entries) = 4
    /\ shown.env.ranking = <<4, 2, 1>>
    /\ Len(shown.context_text) = 3
    /\ shown.context_text[1].Reference = [Source |-> "a.pdf", Page |-> 4]

----------------------------------------------------------------------------
(* C3 *)

\* no page that load_and_chunk_pdfs reaches in the folder holds text
NoContent(folder) ==
    \A n \in 1..Len(folder) :
        \A p \in 1..Len(folder[n].pages) :
            (/\ folder[n].opens
             /\ \A q \in 1..p : ~folder[n].pages[q].raises) => folder[n].pages[p].len = 0

\* C3: an ingest of a folder with no PDF file, or with no page that yields
\* text, returns an empty result, does not call setup_vector_db and leaves the
\* collection as it was.
C3_NoContentKeepsCollection ==
    [][(/\ calls' # <<>>
        /\ calls'[1] = LoadCall
        /\ ingested'.done
        /\ NoContent(ingested'.folder))
       => (/\ ret'.documents = <<>>
           /\ ret'.none = (ingested'.folder = <<>>)
           /\ calls' = <<LoadCall>>
           /\ collection' = collection)]_vars

\* PDFs without text were ingested and the collection of an earlier ingest is there
C3_Witness ==
    /\ calls = <<LoadCall>>
    /\ ingested.done
    /\ ingested.folder # <<>>
    /\ NoContent(ingested.folder)
    /\ ~ret.none
    /\ collection.exists
    /\ collection.entries # <<>>

----------------------------------------------------------------------------
(* C7 *)

\* the (chunk text, metadata) pairs a collection holds
Pairs(coll) ==
    {<<coll.entries[k].document, coll.entries[k].metadata>> :
        k \in 1..Len(coll.entries)}

\* C7: an ingest that reads the folder the ingest before it read leaves the
\* collection with the same (chunk text, metadata) pairs and as many entries;
\* and after an ingest that found documents the collection holds the chunks of
\* that ingest and nothing else.
C7_IngestIdempotent ==
    [][(calls' # <<>> /\ calls'[1] = LoadCall /\ ingested'.done) =>
          /\ ingested'.again =>
                /\ Pairs(collection') = Pairs(collection)
                /\ Len(collection'.entries) = Len(collection.entries)
          /\ Len(calls') = 2 =>
                /\ Len(collection'.entries) = Len(ret'.documents)
                /\ \A k \in 1..Len(ret'.documents) :
                     /\ collection'.entries[k].document = ret'.documents[k]
                     /\ collection'.entries[k].metadata = ret'.metadatas[k]]_vars

\* the same folder was ingested twice, and it holds text
C7_Witness ==
    /\ ingested.again
    /\ Len(calls) = 2
    /\ collection.entries # <<>>

----------------------------------------------------------------------------
(* C6 *)

ErrorTexts == {QueryError, GenerationError, NoCollectionError}

\* C6: a question that fails is answered by an error message on the screen and
\* the surface goes on: the command-line loop is back at its prompt, and in
\* app.py every user message of the history is followed by exactly one
\* assistant message, the answer or the error text.
C6_QuestionFailureContained ==
    /\ pc # "crashed"
    /\ (surface = "cli" /\ calls = <<QueryCall>>) =>
          /\ pc \in {"chat", "done"}
          /\ \/ shown = [kind |-> "answer", text |-> AnswerText]
             \/ \E e \in ErrorTexts :
                  shown = [kind |-> "error", text |-> " An error occurred: " \o e]
    /\ surface = "app" =>
          /\ pc = "running"
          /\ Len(messages) = 2 * asked
          /\ \A k \in 1..asked :
               /\ messages[2 * k - 1].role = "user"
               /\ messages[2 * k - 1].content \in Questions
               /\ messages[2 * k].role = "assistant"
               /\ \/ messages[2 * k].content = AnswerText
                  \/ \E e \in ErrorTexts : messages[2 * k].content = "Error: " \o e
          /\ calls = <<QueryCall>> =>
               /\ shown.kind \in {"answer", "error"}
               /\ shown.text = messages[Len(messages)].content

\* in app.py a question failed in the generation service and the next was answered
C6_Witness ==
    /\ surface = "app"
    /\ Len(messages) = 4
    /\ messages[2].content = "Error: generation failed"
    /\ messages[4].content = AnswerText
    /\ shown.kind = "answer"

----------------------------------------------------------------------------
(* C8 *)

\* C8: when the model listing raises, CURRENT_MODEL is "gemini-1.5-pro"; it is
\* the model of every generate_content call and no ingest or question changes it.
C8_ModelChosenOnce ==
    /\ [](/\ my_models.raises => CURRENT_MODEL = "gemini-1.5-pro"
          /\ gen_models \subseteq {CURRENT_MODEL})
    /\ [][CURRENT_MODEL' = CURRENT_MODEL]_vars

\* the listing raised, and after an ingest a question went to the default model
C8_Witness ==
    /\ my_models.raises
    /\ calls = <<QueryCall>>
    /\ ingested.done
    /\ gen_models = {"gemini-1.5-pro"}

====
